---- MODULE Spec2Model ----
(***************************************************************************)
(* Model of the thermal quality control of wabarca/qc_temperatures:        *)
(*   - detect_thermal_inconsistencies and apply_thermal_correction         *)
(*     (src/qc_batch/thermo_qc.py),                                        *)
(*   - the thermal review loop of process_file (src/qc_batch/workflow.py). *)
(*                                                                         *)
(* A DataFrame is a record [isNone, rows]: isNone models Python's None,    *)
(* rows is the sequence of rows [fecha, valor] in index order.             *)
(* Temperatures are the integers 1..MaxVal, the sentinel is -99, dates are *)
(* 1..NumDates.  Python's None and pandas' NaN are the integers NONE, NAN. *)
(***************************************************************************)
EXTENDS Integers, Sequences, FiniteSets, TLC

\* ---------------------------------------------------------------- bounds
NumDates == 2
MaxVal == 3
EditVal == 2
MaxIter == 5
MaxRep == 7

\* ------------------------------------------------------------- constants
MISSING == -99
NONE == -1000
NAN == -2000

Dates == 1..NumDates
Vals == 1..MaxVal
Vars3 == <<"tmin", "tmean", "tmax">>
VarSet == {"tmin", "tmean", "tmax"}

VARIABLES
    dfs,          \* the triplet: [tmin, tmean, tmax -> DataFrame]
    before,       \* the triplet handed to the last apply_thermal_correction
    lastAccion,   \* accion of the last apply_thermal_correction ("" = none)
    fecha,        \* the date the corrections are applied to
    lastInp,      \* the three input() answers of the last call (action e)
    swapStart,    \* [set, dfs]: the triplet before two consecutive swaps
    detected,     \* [fresh, list]: result of detect_thermal_inconsistencies
    pc,           \* position in process_file
    inconsist,    \* process_file: the pending list
    total_inconsist, \* process_file: len of the first detection
    iters,        \* process_file: iterations so far (counted in SpecKeep)
    journal,      \* changes_applied.json: [exists, single_changes]
    estacion,     \* the station of the session
    stored,       \* the journal as the session found it
    variable,     \* the variable under statistical review
    bounds,       \* the limits handed to detect_outliers
    outliers,     \* [fresh, list, found]: detect_outliers result, and
                  \* what of it is still to review
    validados,    \* the <<station, variable, date>> of the keep decisions
    raised,       \* the exception that ended the run ("" = none)
    prompted,     \* [prev, last]: the dates of the last two prompts (0 = none)
    tmp,          \* the *_tmp.csv snapshots: [tmin, tmean, tmax -> file]
    paths,        \* paths_trip: the file each series was loaded from
    folder        \* the files other than the snapshots: the org and the
                  \* final file of tmin, tmean and tmax, and the variables
                  \* of completed_series.json: [org, qc, completadas]

auditVars == <<journal, estacion, stored, variable, bounds, outliers,
               validados, raised>>

snapVars == <<prompted, tmp, paths, folder>>

vars == <<dfs, before, lastAccion, fecha, lastInp, swapStart, detected,
          pc, inconsist, total_inconsist, iters, auditVars, snapVars>>

\* ------------------------------------------------------------ DataFrames
DfNone == [isNone |-> TRUE, rows |-> <<>>]
Df(rows) == [isNone |-> FALSE, rows |-> rows]
Row(f, v) == [fecha |-> f, valor |-> v]

\* _get_row_mask_by_fecha(df, fecha).any()
HasRow(df, f) == \E i \in 1..Len(df.rows) : df.rows[i].fecha = f

\* index of the first row of the date
FirstIdx(df, f) ==
    CHOOSE i \in 1..Len(df.rows) :
        /\ df.rows[i].fecha = f
        /\ \A j \in 1..(i-1) : df.rows[j].fecha # f

\* df.sort_values("fecha").reset_index(drop=True), as a stable insertion sort
InsertRow(sorted, r) ==
    LET k == Cardinality({i \in 1..Len(sorted) : sorted[i].fecha <= r.fecha})
    IN SubSeq(sorted, 1, k) \o <<r>> \o SubSeq(sorted, k+1, Len(sorted))

RECURSIVE SortRows(_)
SortRows(s) ==
    IF s = <<>> THEN <<>>
    ELSE InsertRow(SortRows(SubSeq(s, 1, Len(s)-1)), s[Len(s)])

SortValues(df) == IF df.isNone THEN df ELSE Df(SortRows(df.rows))

\* apply_thermal_correction._get_val
GetVal(df, f) ==
    IF df.isNone THEN NONE
    ELSE IF ~HasRow(df, f) THEN NONE
    ELSE df.rows[FirstIdx(df, f)].valor

\* apply_thermal_correction._set_val
SetVal(df, f, newval) ==
    IF HasRow(df, f)
    THEN Df([i \in 1..Len(df.rows) |->
                IF df.rows[i].fecha = f THEN Row(f, newval) ELSE df.rows[i]])
    ELSE Df(Append(df.rows, Row(f, newval)))

\* ------------------------------------------ detect_thermal_inconsistencies
NoTipo == "None"

\* v != -99 and not pd.isna(v)
Valido(v) == v # MISSING /\ v # NAN

\* variants of the classification chain
Tipo_InequalityFirst(tmin, tmean, tmax) ==
    IF Valido(tmin) /\ Valido(tmax) /\ tmax < tmin THEN "tmax<tmin"
    ELSE IF Valido(tmin) /\ Valido(tmax) /\ tmin = tmax THEN "tmin==tmax"
    ELSE IF Valido(tmean) /\ Valido(tmax) /\ tmean = tmax THEN "tmean==tmax"
    ELSE IF Valido(tmean) /\ Valido(tmin) /\ tmean = tmin THEN "tmean==tmin"
    ELSE IF Valido(tmean) /\ Valido(tmax) /\ tmean > tmax THEN "tmean>tmax"
    ELSE IF Valido(tmean) /\ Valido(tmin) /\ tmean < tmin THEN "tmean<tmin"
    ELSE NoTipo

Tipo_SinValidez(tmin, tmean, tmax) ==
    IF tmin = tmax THEN "tmin==tmax"
    ELSE IF Valido(tmean) /\ Valido(tmax) /\ tmean = tmax THEN "tmean==tmax"
    ELSE IF Valido(tmean) /\ Valido(tmin) /\ tmean = tmin THEN "tmean==tmin"
    ELSE IF Valido(tmin) /\ Valido(tmax) /\ tmax < tmin THEN "tmax<tmin"
    ELSE IF Valido(tmean) /\ Valido(tmax) /\ tmean > tmax THEN "tmean>tmax"
    ELSE IF Valido(tmean) /\ Valido(tmin) /\ tmean < tmin THEN "tmean<tmin"
    ELSE NoTipo

Tipo_SinTmeanMenor(tmin, tmean, tmax) ==
    IF Valido(tmin) /\ Valido(tmax) /\ tmin = tmax THEN "tmin==tmax"
    ELSE IF Valido(tmean) /\ Valido(tmax) /\ tmean = tmax THEN "tmean==tmax"
    ELSE IF Valido(tmean) /\ Valido(tmin) /\ tmean = tmin THEN "tmean==tmin"
    ELSE IF Valido(tmin) /\ Valido(tmax) /\ tmax < tmin THEN "tmax<tmin"
    ELSE IF Valido(tmean) /\ Valido(tmax) /\ tmean > tmax THEN "tmean>tmax"
    ELSE NoTipo

\* the if/elif chain that classifies one merged row
Tipo(tmin, tmean, tmax) ==
    IF Valido(tmin) /\ Valido(tmax) /\ tmin = tmax THEN "tmin==tmax"
    ELSE IF Valido(tmean) /\ Valido(tmax) /\ tmean = tmax THEN "tmean==tmax"
    ELSE IF Valido(tmean) /\ Valido(tmin) /\ tmean = tmin THEN "tmean==tmin"
    ELSE IF Valido(tmin) /\ Valido(tmax) /\ tmax < tmin THEN "tmax<tmin"
    ELSE IF Valido(tmean) /\ Valido(tmax) /\ tmean > tmax THEN "tmean>tmax"
    ELSE IF Valido(tmean) /\ Valido(tmin) /\ tmean < tmin THEN "tmean<tmin"
    ELSE NoTipo

\* the dates of the outer merge of the DataFrames that are not None
MergedDates(d) ==
    {f \in Dates : \E k \in VarSet : ~d[k].isNone /\ HasRow(d[k], f)}

\* row.get(col, -99) on the merged row of date f: -99 when the column does
\* not exist (DataFrame None), NaN when the series has no row for the date
MergedVal(df, f) ==
    IF df.isNone THEN MISSING
    ELSE IF ~HasRow(df, f) THEN NAN
    ELSE df.rows[FirstIdx(df, f)].valor

\* the entry appended for date f, or <<>> when the row is skipped
DetectRow(d, f) ==
    LET tmin == MergedVal(d.tmin, f)
        tmean == MergedVal(d.tmean, f)
        tmax == MergedVal(d.tmax, f)
        tipo == Tipo(tmin, tmean, tmax)
    IN IF f \notin MergedDates(d) THEN <<>>
       ELSE IF ~Valido(tmin) /\ ~Valido(tmean) /\ ~Valido(tmax) THEN <<>>
       ELSE IF tipo = NoTipo THEN <<>>
       ELSE <<[fecha |-> f, tmin |-> tmin, tmean |-> tmean, tmax |-> tmax,
               tipo |-> tipo]>>

RECURSIVE DetectFrom(_, _)
DetectFrom(d, f) ==
    IF f > NumDates THEN <<>> ELSE DetectRow(d, f) \o DetectFrom(d, f + 1)

\* detect_thermal_inconsistencies(df_tmin, df_tmean, df_tmax): the merged
\* frame is sorted by fecha, so the rows are visited in ascending date order
detect_thermal_inconsistencies(d) == DetectFrom(d, 1)

\* ------------------------------------------------ apply_thermal_correction
\* the answers to input() of the manual edit: "" (enter), a text that
\* float() rejects, or the decimal spelling of a temperature
NumToken(v) == <<"1", "2", "3", "4", "5", "6", "7", "8", "9">>[v]
IsNumeric(tok) == \E v \in Vals : NumToken(v) = tok
Float(tok) == CHOOSE v \in Vals : NumToken(v) = tok
NoInput == <<"", "", "">>

\* variant that creates no row
EnsureRow_SinCrear(df, f) == df

\* "Ensure rows exist for the date in each df"
EnsureRow(df, f) ==
    IF df.isNone THEN Df(<<Row(f, MISSING)>>)
    ELSE IF ~HasRow(df, f)
         THEN Df(SortRows(Append(df.rows, Row(f, MISSING))))
         ELSE df

EnsureRows(d, f) == [k \in VarSet |-> EnsureRow(d[k], f)]

\* cur / before / after: _get_val of the three series
GetVals(d, f) == [k \in VarSet |-> GetVal(d[k], f)]

\* sorted(vals) for a list of at most three floats
SortedVals(s) ==
    IF Len(s) = 2
    THEN (IF s[1] <= s[2] THEN s ELSE <<s[2], s[1]>>)
    ELSE IF Len(s) = 3
    THEN LET lo == CHOOSE x \in {s[1], s[2], s[3]} :
                       \A y \in {s[1], s[2], s[3]} : x <= y
             hi == CHOOSE x \in {s[1], s[2], s[3]} :
                       \A y \in {s[1], s[2], s[3]} : y <= x
             mid == s[1] + s[2] + s[3] - lo - hi
         IN <<lo, mid, hi>>
    ELSE s

\* variant of the swap that writes tmin before it reads it
ActSwap_Sequential(d, f, cur) ==
    IF cur.tmin = NONE \/ cur.tmax = NONE THEN d
    ELSE [d EXCEPT !.tmin = SetVal(d.tmin, f, cur.tmax),
                   !.tmax = SetVal(d.tmax, f, cur.tmax)]

\* accion == "i"
ActSwap(d, f, cur) ==
    IF cur.tmin = NONE \/ cur.tmax = NONE THEN d
    ELSE [d EXCEPT !.tmin = SetVal(d.tmin, f, cur.tmax),
                   !.tmax = SetVal(d.tmax, f, cur.tmin)]

\* accion == "x"
ActBlankPair(d, f, cur) ==
    IF cur.tmean # NONE /\ cur.tmax # NONE /\ cur.tmean > cur.tmax
    THEN [d EXCEPT !.tmean = SetVal(d.tmean, f, MISSING),
                   !.tmax = SetVal(d.tmax, f, MISSING)]
    ELSE IF cur.tmean # NONE /\ cur.tmin # NONE /\ cur.tmean < cur.tmin
    THEN [d EXCEPT !.tmean = SetVal(d.tmean, f, MISSING),
                   !.tmin = SetVal(d.tmin, f, MISSING)]
    ELSE [d EXCEPT !.tmean = SetVal(d.tmean, f, MISSING)]

\* accion == "e": the three float() conversions share one try block, so the
\* first answer that float() rejects abandons the answers after it
ActEdit(d, f, inp) ==
    LET d1 == IF inp[1] # "" /\ IsNumeric(inp[1])
              THEN [d EXCEPT !.tmin = SetVal(d.tmin, f, Float(inp[1]))]
              ELSE d
        ok1 == inp[1] = "" \/ IsNumeric(inp[1])
        d2 == IF ok1 /\ inp[2] # "" /\ IsNumeric(inp[2])
              THEN [d1 EXCEPT !.tmean = SetVal(d1.tmean, f, Float(inp[2]))]
              ELSE d1
        ok2 == ok1 /\ (inp[2] = "" \/ IsNumeric(inp[2]))
        d3 == IF ok2 /\ inp[3] # "" /\ IsNumeric(inp[3])
              THEN [d2 EXCEPT !.tmax = SetVal(d2.tmax, f, Float(inp[3]))]
              ELSE d2
    IN d3

\* accion == "r"
ActReorder(d, f, cur) ==
    LET ks == SelectSeq(Vars3, LAMBDA k : cur[k] # NONE /\ cur[k] # MISSING)
        vals == [i \in 1..Len(ks) |-> cur[ks[i]]]
        vs == SortedVals(vals)
    IN IF Len(vals) = 2
       THEN [d EXCEPT !.tmin = SetVal(d.tmin, f, vs[1]),
                      !.tmean = SetVal(d.tmean, f, vs[2]),
                      !.tmax = SetVal(d.tmax, f,
                                 IF cur.tmax # MISSING THEN cur.tmax ELSE vs[2])]
       ELSE IF Len(vals) = 3
       THEN [d EXCEPT !.tmin = SetVal(d.tmin, f, vs[1]),
                      !.tmean = SetVal(d.tmean, f, vs[2]),
                      !.tmax = SetVal(d.tmax, f, vs[3])]
       ELSE d

\* the if/elif chain over accion
ApplyAccion(accion, d, f, cur, inp) ==
    CASE accion = "m" -> d
      [] accion = "i" -> ActSwap(d, f, cur)
      [] accion = "t" -> [d EXCEPT !.tmean = SetVal(d.tmean, f, MISSING)]
      [] accion = "x" -> ActBlankPair(d, f, cur)
      [] accion = "e" -> ActEdit(d, f, inp)
      [] accion = "s" -> [d EXCEPT !.tmin = SetVal(d.tmin, f, MISSING),
                                   !.tmean = SetVal(d.tmean, f, MISSING),
                                   !.tmax = SetVal(d.tmax, f, MISSING)]
      [] accion = "u" -> [d EXCEPT !.tmax = SetVal(d.tmax, f, MISSING)]
      [] accion = "l" -> [d EXCEPT !.tmin = SetVal(d.tmin, f, MISSING)]
      [] accion = "r" -> ActReorder(d, f, cur)
      [] OTHER -> d

\* apply_thermal_correction(action, fecha, dfs, ...): the returned dfs
apply_thermal_correction(accion, f, d, inp) ==
    LET ensured == EnsureRows(d, f)
        cur == GetVals(ensured, f)
        applied == ApplyAccion(accion, ensured, f, cur, inp)
    IN [k \in VarSet |-> SortValues(applied[k])]

\* ------------------------------------------------------ files of series
\* -99.9, the other spelling of the sentinel found in the files; what matters
\* of it is that it differs from -99 and lies below every temperature
MISSING_ALT == -100

\* the text of a date that "%Y%m%d" does not parse
BADDATE == 0

\* a csv file of FECHA,<station> rows, or no file
NoFile == [exists |-> FALSE, filas |-> <<>>]
CsvFile(filas) == [exists |-> TRUE, filas |-> filas]

\* the text to_csv writes for a value
ValToken(v) ==
    IF v = MISSING THEN "-99.0"
    ELSE IF v = MISSING_ALT THEN "-99.9"
    ELSE IF v = NAN THEN ""
    ELSE NumToken(v)

\* pd.to_numeric(text, errors="coerce")
ToNumeric(tok) ==
    IF tok \in {"-99", "-99.0"} THEN MISSING
    ELSE IF tok = "-99.9" THEN MISSING_ALT
    ELSE IF IsNumeric(tok) THEN Float(tok)
    ELSE NAN

\* write_tmp: FECHA as YYYYMMDD, the values under the station id
WriteCsv(df) ==
    CsvFile([i \in 1..Len(df.rows) |->
                [FECHA |-> df.rows[i].fecha,
                 VALOR |-> ValToken(df.rows[i].valor)]])

\* the paths of paths_trip
PathND == "N/D"
PathOrg == "tmin_1991-2020_S1_org.csv"

\* read_series(path): dates and values are coerced, rows without a date are
\* dropped, values are kept as read
read_series(file) ==
    Df(SelectSeq([i \in 1..Len(file.filas) |->
                     Row(file.filas[i].FECHA, ToNumeric(file.filas[i].VALOR))],
                 LAMBDA r : r.fecha # BADDATE))

\* extract_period_from_filename(src_path): the period label of a file name
\* var_periodo_estacion[_suffix].csv, nothing for any other text
extract_period_from_filename(path) ==
    IF path = PathND THEN "" ELSE "1991-2020"

\* write_triplet_tmp(dfs, paths_trip, ...) from the i-th variable on: a
\* series that is None is skipped, a series without a usable source path
\* raises ValueError after the series before it were written
RECURSIVE WriteFrom(_, _, _, _)
WriteFrom(d, pths, snap, i) ==
    IF i > 3 THEN [tmp |-> snap, raised |-> ""]
    ELSE LET k == Vars3[i]
         IN IF d[k].isNone THEN WriteFrom(d, pths, snap, i + 1)
            ELSE IF pths[k] = "" \/ extract_period_from_filename(pths[k]) = ""
            THEN [tmp |-> snap, raised |-> "ValueError"]
            ELSE WriteFrom(d, pths, [snap EXCEPT ![k] = WriteCsv(d[k])],
                           i + 1)

write_triplet_tmp(d, pths, snap) == WriteFrom(d, pths, snap, 1)

\* ------------------------------------------------------------ load_triplet
\* the file names of the station, all of one period
PathOf(k, suf) == k \o "_1991-2020_S1_" \o suf \o ".csv"

NoFolder ==
    [org |-> [k \in VarSet |-> NoFile], qc |-> [k \in VarSet |-> NoFile],
     completadas |-> {}]

\* a file found: its path, its content and the suffix of its name; path ""
\* is Python's None
NoCandidate == [path |-> "", file |-> NoFile, suffix |-> ""]
Candidate(fold, snap, k, suf) ==
    [path |-> PathOf(k, suf),
     file |-> IF suf = "QC" THEN fold.qc[k]
              ELSE IF suf = "tmp" THEN snap[k] ELSE fold.org[k],
     suffix |-> suf]

\* find_candidate_any_period(folder_out, var, estacion): QC, then tmp
find_candidate_any_period(fold, snap, k) ==
    IF fold.qc[k].exists THEN Candidate(fold, snap, k, "QC")
    ELSE IF snap[k].exists THEN Candidate(fold, snap, k, "tmp")
    ELSE NoCandidate

\* find_candidate_file(folder_in, folder_out, var, periodo, estacion):
\* QC, then tmp, then org
find_candidate_file(fold, snap, k) ==
    IF fold.qc[k].exists THEN Candidate(fold, snap, k, "QC")
    ELSE IF snap[k].exists THEN Candidate(fold, snap, k, "tmp")
    ELSE IF fold.org[k].exists THEN Candidate(fold, snap, k, "org")
    ELSE NoCandidate

\* the locals df_loaded and ruta_usada of load_triplet: nothing is assigned
\* to them before the loop nor at the start of an iteration, so they are
\* unbound at first and keep the values of the variable before
Unbound == [bound |-> FALSE, df |-> DfNone, ruta |-> ""]
Bind(c) == [bound |-> TRUE, df |-> read_series(c.file), ruta |-> c.path]

\* the branch of the mode (force_org, start_from = "qc", or auto) for the
\* variable k; reading an unbound local raises UnboundLocalError
LoadMode(fold, snap, k, start_from, force_org, loc) ==
    LET any == find_candidate_any_period(fold, snap, k)
    IN IF force_org
       THEN [loc |-> IF fold.org[k].exists
                     THEN Bind(Candidate(fold, snap, k, "org")) ELSE loc,
             raised |-> ""]
       ELSE IF start_from = "qc"
       THEN (IF any.path # "" /\ any.suffix = "QC"
             THEN [loc |-> Bind(any), raised |-> ""]
             ELSE [loc |-> loc, raised |-> "FileNotFoundError"])
       ELSE LET l1 == IF any.path # "" THEN Bind(any) ELSE loc
                cand == find_candidate_file(fold, snap, k)
            IN IF ~l1.bound
               THEN [loc |-> l1, raised |-> "UnboundLocalError"]
               ELSE IF l1.df.isNone /\ cand.path # ""
               THEN [loc |-> Bind(cand), raised |-> ""]
               ELSE [loc |-> l1, raised |-> ""]

\* one iteration of "for var in variables": the branch of the mode, then
\* the flexible fallback to an org file of any period
LoadVar(fold, snap, k, start_from, force_org, loc) ==
    LET m == LoadMode(fold, snap, k, start_from, force_org, loc)
    IN IF m.raised # "" THEN m
       ELSE IF ~m.loc.bound THEN [loc |-> m.loc, raised |-> "UnboundLocalError"]
       ELSE IF m.loc.df.isNone /\ ~force_org /\ start_from # "qc"
               /\ fold.org[k].exists
       THEN [loc |-> Bind(Candidate(fold, snap, k, "org")), raised |-> ""]
       ELSE m

RECURSIVE LoadFrom(_, _, _, _, _, _, _)
LoadFrom(fold, snap, start_from, force_org, i, loc, acc) ==
    IF i > 3 THEN acc
    ELSE LET k == Vars3[i]
             r == LoadVar(fold, snap, k, start_from, force_org, loc)
         IN IF r.raised # "" THEN [acc EXCEPT !.raised = r.raised]
            ELSE LoadFrom(fold, snap, start_from, force_org, i + 1, r.loc,
                          [acc EXCEPT !.res[k] = r.loc.df,
                                      !.paths[k] = r.loc.ruta])

\* load_triplet(folder_in, folder_out, periodo, estacion, start_from,
\* force_org) for tmin, tmean and tmax; pr, loaded last by a branch that
\* assigns both locals, is left out
load_triplet(fold, snap, start_from, force_org) ==
    LoadFrom(fold, snap, start_from, force_org, 1, Unbound,
             [res |-> [k \in VarSet |-> DfNone],
              paths |-> [k \in VarSet |-> PathND],
              raised |-> ""])

\* ------------------------------------------------------ the audit journal
\* the spellings of the station ids and str.upper() on them
Stations == {"S1", "s1"}
Upper(est) == IF est = "s1" THEN "S1" ELSE est

\* changes_applied.json before the first write
JournalMissing == [exists |-> FALSE, single_changes |-> <<>>]

\* _load_changes(folder_out)["single_changes"]
LoadChanges(p) == IF ~p.exists THEN <<>> ELSE p.single_changes

\* _save_changes(folder_out, changes): the whole file is rewritten
SaveChanges(changes) == [exists |-> TRUE, single_changes |-> changes]

\* the entry of apply_thermal_correction (the timestamp is left out): d0 is
\* the triplet as handed in, d1 the triplet returned
ThermalEntry_PreviosTrasAsegurar(est, f, accion, d0, d1) ==
    [estacion |-> Upper(est), fecha |-> f, accion |-> accion, nota |-> "",
     valores_previos |-> GetVals(EnsureRows(d0, f), f),
     valores_nuevos |-> GetVals(d1, f)]

ThermalEntry(est, f, accion, d0, d1) ==
    [estacion |-> Upper(est), fecha |-> f, accion |-> accion, nota |-> "",
     valores_previos |-> GetVals(d0, f),
     valores_nuevos |-> GetVals(d1, f)]

\* the entry of a statistical decision (the timestamp is left out)
StatEntry(est, f, action, valor, nuevo) ==
    [estacion |-> est, fecha |-> f, accion |-> action,
     valor_prev |-> valor,
     valor_new |-> IF action = "s" THEN NONE
                   ELSE IF action = "n" THEN nuevo ELSE valor,
     nota |-> "decision estadistica (workflow)"]

\* changes = _load_changes(...); changes["single_changes"].append(entry);
\* _save_changes(..., changes)
AppendEntry_SoloNueva(p, entry) == SaveChanges(<<entry>>)

AppendEntry(p, entry) == SaveChanges(Append(LoadChanges(p), entry))

\* ------------------------------------------------- statistical detection
\* lower_p, upper_p in tenths and k in halves (0.10, 0.90, 1.5); limits and
\* percentiles are kept in twentieths of a degree, so that they are integers
LowerP10 == 1
UpperP10 == 9
KHalves == 3
Unidad == 20

InsertNum(sorted, x) ==
    LET k == Cardinality({i \in 1..Len(sorted) : sorted[i] <= x})
    IN SubSeq(sorted, 1, k) \o <<x>> \o SubSeq(sorted, k+1, Len(sorted))

RECURSIVE SortNums(_)
SortNums(s) ==
    IF s = <<>> THEN <<>>
    ELSE InsertNum(SortNums(SubSeq(s, 1, Len(s)-1)), s[Len(s)])

\* np.nanpercentile(series, p * 100): linear interpolation between the two
\* order statistics around position p * (n - 1)
Percentile(series, p10) ==
    LET x == SortNums(series)
        pos10 == p10 * (Len(x) - 1)
        lo == (pos10 \div 10) + 1
        fr == pos10 % 10
    IN IF fr = 0 THEN Unidad * x[lo]
       ELSE Unidad * x[lo] + (Unidad \div 10) * fr * (x[lo + 1] - x[lo])

\* the bounds of process_file when there is nothing to evaluate: the keys
\* lim_inf and lim_sup are not in the dict
BoundsSinLimites ==
    [p_low |-> NONE, p_high |-> NONE, iqr |-> NONE,
     lim_inf |-> NONE, lim_sup |-> NONE]

compute_bounds(series) ==
    IF Len(series) = 0
    THEN [p_low |-> NAN, p_high |-> NAN, iqr |-> NAN,
          lim_inf |-> NAN, lim_sup |-> NAN]
    ELSE LET p_low == Percentile(series, LowerP10)
             p_high == Percentile(series, UpperP10)
             iqr == p_high - p_low
         IN [p_low |-> p_low, p_high |-> p_high, iqr |-> iqr,
             lim_inf |-> p_low - (KHalves * iqr) \div 2,
             lim_sup |-> p_high + (KHalves * iqr) \div 2]

\* get_validated_outliers(folder_out): an unreadable file gives set()
get_validated_outliers(p) ==
    IF ~p.exists THEN {}
    ELSE {<<p.single_changes[i].estacion, p.single_changes[i].fecha>> :
            i \in {j \in 1..Len(p.single_changes) :
                      p.single_changes[j].accion = "m"}}

\* whether row i of df passes the tests of the loop of detect_outliers;
\* NaN compares false with everything
EsOutlier_SinValidados(df, i, b, validated, est) ==
    LET v == df.rows[i].valor
    IN /\ v # MISSING
       /\ v # NAN
       /\ (Unidad * v < b.lim_inf \/ Unidad * v > b.lim_sup)

EsOutlier_SinCentinela(df, i, b, validated, est) ==
    LET v == df.rows[i].valor
    IN /\ v # NAN
       /\ <<est, df.rows[i].fecha>> \notin validated
       /\ (Unidad * v < b.lim_inf \/ Unidad * v > b.lim_sup)

EsOutlier(df, i, b, validated, est) ==
    LET v == df.rows[i].valor
    IN /\ v # MISSING
       /\ v # NAN
       /\ <<est, df.rows[i].fecha>> \notin validated
       /\ (Unidad * v < b.lim_inf \/ Unidad * v > b.lim_sup)

RECURSIVE OutliersFrom(_, _, _, _, _)
OutliersFrom(df, i, b, validated, est) ==
    IF i > Len(df.rows) THEN <<>>
    ELSE (IF EsOutlier(df, i, b, validated, est)
          THEN <<[idx |-> i - 1, val |-> df.rows[i].valor]>>
          ELSE <<>>)
         \o OutliersFrom(df, i + 1, b, validated, est)

\* (lim_sup - lim_inf) <= 1e-6: the difference is a whole number of
\* twentieths, so it is at most 1e-6 exactly when it is at most 0
RangoDegenerado_Nunca(b) == FALSE

RangoDegenerado(b) == b.lim_sup - b.lim_inf <= 0

\* detect_outliers(df, bounds, folder_out, estacion, variable): the list of
\* (index, value); p is the journal file of folder_out
detect_outliers(df, b, p, est, var) ==
    IF df.isNone \/ df.rows = <<>> THEN <<>>
    ELSE IF b.lim_inf = NONE \/ b.lim_sup = NONE THEN <<>>
    ELSE IF b.lim_inf = NAN \/ b.lim_sup = NAN THEN <<>>
    ELSE IF RangoDegenerado(b) THEN <<>>
    ELSE OutliersFrom(df, 1, b, get_validated_outliers(p), est)

\* ------------------------------------------------------- initial triplets
\* what a series holds for one date: no row, the sentinel, or a temperature
CellChoices == {NONE, MISSING} \cup Vals

\* the dates other than the one under study hold one of these rows
OtherPatterns ==
    { [tmin |-> NONE, tmean |-> NONE, tmax |-> NONE],
      [tmin |-> 2, tmean |-> NONE, tmax |-> 1] }

RECURSIVE RowsFrom(_, _, _)
RowsFrom(cells, k, f) ==
    IF f > NumDates THEN <<>>
    ELSE (IF cells[f][k] = NONE THEN <<>> ELSE <<Row(f, cells[f][k])>>)
         \o RowsFrom(cells, k, f + 1)

\* read_series result (rows in file order, here ascending and without
\* duplicate dates), or None when no file was found for the variable
BuildDf(cells, k, absent) ==
    LET rows == RowsFrom(cells, k, 1)
    IN IF rows = <<>> /\ absent THEN DfNone ELSE Df(rows)

\* the triplets whose date focus holds any row and whose other dates all
\* hold the same one of OtherPatterns
InitialTriplets(focus) ==
    { [k \in VarSet |->
          BuildDf([f \in Dates |-> IF f = focus THEN c ELSE o], k, ab[k])] :
        c \in [VarSet -> CellChoices],
        o \in OtherPatterns, ab \in [VarSet -> BOOLEAN] }

\* ------------------------------------------------- the correction engine
Acciones == {"m", "i", "t", "x", "e", "s", "u", "l", "r", "p", "zz"}
EditTokens == {"", "abc", NumToken(EditVal)}
EditInputs == [1..3 -> EditTokens]

NoDetection == [fresh |-> FALSE, list |-> <<>>]
NoSwapStart == [set |-> FALSE, dfs |-> [k \in VarSet |-> DfNone]]

InitHistory ==
    /\ before = [k \in VarSet |-> DfNone]
    /\ lastAccion = ""
    /\ lastInp = NoInput
    /\ swapStart = NoSwapStart
    /\ detected = NoDetection

NoOutliers == [fresh |-> FALSE, list |-> <<>>, found |-> <<>>]

InitAuditVars ==
    /\ journal = JournalMissing
    /\ estacion = "S1"
    /\ stored = JournalMissing
    /\ variable = "tmin"
    /\ bounds = BoundsSinLimites
    /\ outliers = NoOutliers
    /\ validados = {}
    /\ raised = ""

\* no prompt yet and no snapshot in folder_out; the functions called
\* outside process_file take no paths and look for no file
InitSnapVars ==
    /\ prompted = [prev |-> 0, last |-> 0]
    /\ tmp = [k \in VarSet |-> NoFile]
    /\ paths = [k \in VarSet |-> PathOrg]
    /\ folder = NoFolder

InitLoopVars ==
    /\ pc = "start"
    /\ inconsist = <<>>
    /\ total_inconsist = 0
    /\ iters = 0

Init ==
    /\ fecha \in Dates
    /\ dfs \in InitialTriplets(fecha)
    /\ InitHistory
    /\ InitLoopVars
    /\ InitAuditVars
    /\ InitSnapVars

loopVars == <<pc, inconsist, total_inconsist, iters>>

\* the first detection over the loaded triplet
DetectCall ==
    /\ lastAccion = ""
    /\ ~detected.fresh
    /\ detected' = [fresh |-> TRUE, list |-> detect_thermal_inconsistencies(dfs)]
    /\ UNCHANGED <<dfs, before, lastAccion, fecha, lastInp, swapStart>>
    /\ UNCHANGED loopVars
    /\ UNCHANGED auditVars
    /\ UNCHANGED snapVars

\* one call apply_thermal_correction(accion, fecha, dfs, ...) followed by a
\* new detection over the returned triplet; the journal entry written by
\* the call is followed by AuditedCall
ApplyCall(accion, inp) ==
    /\ dfs' = apply_thermal_correction(accion, fecha, dfs, inp)
    /\ before' = dfs
    /\ lastAccion' = accion
    /\ lastInp' = inp
    /\ swapStart' = IF accion = "i" /\ lastAccion = "i"
                    THEN [set |-> TRUE, dfs |-> before]
                    ELSE NoSwapStart
    /\ detected' = [fresh |-> TRUE,
                    list |-> detect_thermal_inconsistencies(dfs')]
    /\ UNCHANGED fecha
    /\ UNCHANGED loopVars
    /\ UNCHANGED auditVars
    /\ UNCHANGED snapVars

Next ==
    \/ DetectCall
    \/ \E accion \in Acciones \ {"e"} : ApplyCall(accion, NoInput)
    \/ \E inp \in EditInputs : ApplyCall("e", inp)

Spec == Init /\ [][Next]_vars

\* ------------------------------------------- process_file: thermal review
\* variant: the inversion is looked at before the duplicated tmean
sugerir_accion_letras_InversionPrimero(tmin, tmean, tmax) ==
    IF tmax < tmin THEN "i"
    ELSE IF tmean = tmin \/ tmean = tmax THEN "t"
    ELSE IF tmean > tmax \/ tmean < tmin THEN "t"
    ELSE ""

\* sugerir_accion_letras(tmin, tmean, tmax); "" stands for (None, None)
sugerir_accion_letras(tmin, tmean, tmax) ==
    IF tmean = tmin \/ tmean = tmax THEN "t"
    ELSE IF tmax < tmin THEN "i"
    ELSE IF tmean > tmax \/ tmean < tmin THEN "t"
    ELSE ""

\* "df is not None and not df.empty"
Present(df) == ~df.isNone /\ df.rows # <<>>

\* whether the merged frame trip has a column named k: trip starts from the
\* first present series and is then merged with tmean and tmax again, and a
\* column merged with itself is renamed k_x / k_y by pandas
TripHasCol(d, k) ==
    CASE k = "tmin" -> Present(d.tmin)
      [] k = "tmean" -> Present(d.tmean) /\ Present(d.tmin)
      [] k = "tmax" -> Present(d.tmax) /\ (Present(d.tmin) \/ Present(d.tmean))

\* _safe_get(vals, col): -99 for a missing column, fillna(-99) otherwise
SafeGet(d, k, f) ==
    IF ~TripHasCol(d, k) THEN MISSING
    ELSE IF ~HasRow(d[k], f) THEN MISSING
    ELSE d[k].rows[FirstIdx(d[k], f)].valor

\* hay_inconsistencia_real
HayInconsistenciaReal(tmin, tmean, tmax) ==
    LET num_validos == Cardinality({k \in VarSet :
                          [tmin |-> tmin, tmean |-> tmean, tmax |-> tmax][k]
                              # MISSING})
    IN IF num_validos >= 2
       THEN \/ (tmin # MISSING /\ tmax # MISSING /\ tmax < tmin)
            \/ (tmean # MISSING /\ tmax # MISSING /\ tmean > tmax)
            \/ (tmean # MISSING /\ tmin # MISSING /\ tmean < tmin)
            \/ (tmean # MISSING /\ tmin # MISSING /\ tmean = tmin)
            \/ (tmean # MISSING /\ tmax # MISSING /\ tmean = tmax)
            \/ (tmin # MISSING /\ tmax # MISSING /\ tmin = tmax)
       ELSE FALSE

\* the actions the menu accepts
OpsValidas == {"i", "t", "x", "e", "s", "m", "r", "p", "u", "l"}

\* the answers of one manual edit in the review loop: at most one field
\* is answered
EditInputsLoop ==
    {inp \in EditInputs : Cardinality({i \in 1..3 : inp[i] # ""}) <= 1}

SigueIgual_SoloFecha(lst, f, tipo) ==
    \E i \in 1..Len(lst) : lst[i].fecha = f

\* any(inc2["fecha"] == fecha and inc2["tipo"] == tipo for inc2 in lst)
SigueIgual(lst, f, tipo) ==
    \E i \in 1..Len(lst) : lst[i].fecha = f /\ lst[i].tipo = tipo

\* [inc for inc in lst if inc["fecha"] != fecha]
SinFecha(lst, f) == SelectSeq(lst, LAMBDA inc : inc.fecha # f)

histVars == <<before, lastAccion, lastInp, swapStart, detected>>

\* first detection and the question "¿Desea revisarlas ahora?"; a decline
\* returns at once
StartReview(resp) ==
    /\ pc = "start"
    /\ raised = ""
    /\ inconsist' = detect_thermal_inconsistencies(dfs)
    /\ total_inconsist' = Len(inconsist')
    /\ pc' = IF total_inconsist' > 0 /\ resp \notin {"s", "y", ""}
             THEN "skipped" ELSE "loop"
    /\ UNCHANGED <<dfs, fecha, iters>>
    /\ UNCHANGED histVars
    /\ UNCHANGED auditVars
    /\ UNCHANGED snapVars

\* one iteration of "while len(inconsist) > 0"; key is the answer to
\* "Seleccione una acción" that ends the re-prompting ("" accepts the
\* suggestion), inp the answers of the manual edit.  The journal entry the
\* correction writes is followed by AuditedCall.
ReviewIteration(key, inp) ==
    /\ pc = "loop"
    /\ raised = ""
    /\ Len(inconsist) > 0
    /\ LET inc == inconsist[1]
           f == inc.fecha
           tipo == inc.tipo
           tmin_val == SafeGet(dfs, "tmin", f)
           tmean_val == SafeGet(dfs, "tmean", f)
           tmax_val == SafeGet(dfs, "tmax", f)
           sug == sugerir_accion_letras(tmin_val, tmean_val, tmax_val)
           op == IF key = "" THEN sug ELSE key
       IN /\ fecha' = f
          /\ IF ~HayInconsistenciaReal(tmin_val, tmean_val, tmax_val)
             THEN /\ key = "p"
                  /\ inconsist' = detect_thermal_inconsistencies(dfs)
                  /\ UNCHANGED <<dfs, pc, raised, prompted, tmp>>
             ELSE /\ op \in OpsValidas
                  /\ prompted' = [prev |-> prompted.last, last |-> f]
                  /\ dfs' = apply_thermal_correction(op, f, dfs, inp)
                  /\ LET w == write_triplet_tmp(dfs', paths, tmp)
                         inconsist_new == detect_thermal_inconsistencies(dfs')
                     IN /\ tmp' = w.tmp
                        /\ raised' = w.raised
                        /\ IF w.raised # ""
                           THEN /\ pc' = "error"
                                /\ UNCHANGED inconsist
                           ELSE /\ UNCHANGED pc
                                /\ IF SigueIgual(inconsist_new, f, tipo)
                                   THEN inconsist' = SinFecha(inconsist_new, f)
                                   ELSE inconsist' = inconsist_new
    /\ UNCHANGED <<total_inconsist, paths, folder>>
    /\ UNCHANGED histVars
    /\ UNCHANGED <<journal, estacion, stored, variable, bounds, outliers,
                   validados>>

ReviewStep(key, inp) ==
    /\ ReviewIteration(key, inp)
    /\ UNCHANGED iters

\* the while loop ends with no pending inconsistency; outside the mode
\* start_from = "qc" the snapshot is written once more
EndThermal(start_from) ==
    /\ pc = "loop"
    /\ raised = ""
    /\ inconsist = <<>>
    /\ LET w == IF start_from # "qc" THEN write_triplet_tmp(dfs, paths, tmp)
                ELSE [tmp |-> tmp, raised |-> ""]
       IN /\ tmp' = w.tmp
          /\ raised' = w.raised
          /\ pc' = IF w.raised # "" THEN "error" ELSE "thermo_done"
    /\ UNCHANGED <<dfs, fecha, inconsist, total_inconsist, iters>>
    /\ UNCHANGED histVars
    /\ UNCHANGED <<journal, estacion, stored, variable, bounds, outliers,
                   validados>>
    /\ UNCHANGED <<prompted, paths, folder>>

\* process_file from the summary of the thermal corrections to
\* mark_completed: df_base is the series of var, read again from the org
\* file when it is empty; a series with rows goes to compute_bounds and to
\* detect_outliers(df_base, bounds), a call without the arguments
\* folder_out, estacion and variable; an empty one has no outliers, so the
\* menu is skipped, write_qc and mark_completed run and the snapshot of var
\* is removed.  The table of changes, the plot and the report come after.
StatStage ==
    /\ pc = "thermo_done"
    /\ raised = ""
    /\ LET vacio == ~dfs[variable].isNone /\ dfs[variable].rows = <<>>
           df_base == IF vacio /\ folder.org[variable].exists
                      THEN read_series(folder.org[variable])
                      ELSE dfs[variable]
       IN IF dfs[variable].isNone
          THEN /\ raised' = "TypeError"
               /\ pc' = "error"
               /\ UNCHANGED <<tmp, folder>>
          ELSE IF vacio /\ ~folder.org[variable].exists
          THEN /\ raised' = "FileNotFoundError"
               /\ pc' = "error"
               /\ UNCHANGED <<tmp, folder>>
          ELSE IF df_base.rows # <<>>
          THEN /\ raised' = "TypeError"
               /\ pc' = "error"
               /\ UNCHANGED <<tmp, folder>>
          ELSE /\ pc' = "done"
               /\ folder' = [folder EXCEPT
                                !.qc[variable] = WriteCsv(df_base),
                                !.completadas = @ \cup {variable}]
               /\ tmp' = [tmp EXCEPT ![variable] = NoFile]
               /\ UNCHANGED raised
    /\ UNCHANGED <<dfs, fecha, inconsist, total_inconsist, iters>>
    /\ UNCHANGED histVars
    /\ UNCHANGED <<journal, estacion, stored, variable, bounds, outliers,
                   validados>>
    /\ UNCHANGED <<prompted, paths>>

NextLoop ==
    \/ \E resp \in {"s", "n"} : StartReview(resp)
    \/ \E key \in (OpsValidas \cup {""}) \ {"e"} : ReviewStep(key, NoInput)
    \/ \E inp \in EditInputsLoop : ReviewStep("e", inp)
    \/ \E start_from \in {"org", "qc"} : EndThermal(start_from)

\* folder_in with the org files a triplet was read from
OrgFolder(d) ==
    [NoFolder EXCEPT !.org = [k \in VarSet |->
                                IF d[k].isNone THEN NoFile ELSE WriteCsv(d[k])]]

\* process_file after load_triplet_from_org or _load_triplet_from_qc: the
\* path of a series that was not found is "N/D"
InitLoop ==
    /\ fecha \in Dates
    /\ dfs \in InitialTriplets(fecha)
    /\ InitHistory
    /\ InitLoopVars
    /\ InitAuditVars
    /\ prompted = [prev |-> 0, last |-> 0]
    /\ tmp = [k \in VarSet |-> NoFile]
    /\ paths = [k \in VarSet |-> IF dfs[k].isNone THEN PathND ELSE PathOrg]
    /\ folder = NoFolder

\* "sub in s" for two texts
Contiene(s, sub) ==
    \E i \in 1..(Len(s) - Len(sub) + 1) :
        SubSeq(s, i, i + Len(sub) - 1) = sub

\* plot_context_2x2: vars_anomalas, the variables drawn as implicated, for
\* the kind tipo_inconsistencia and the variable var_principal of the run
vars_anomalas(tipo_inconsistencia, var_principal) ==
    LET estad == IF tipo_inconsistencia = "estadistico"
                    /\ var_principal # "pr"
                 THEN {var_principal} ELSE {}
        term == (IF Contiene(tipo_inconsistencia, "==tmin")
                 THEN {"tmean", "tmin"} ELSE {})
                \cup (IF Contiene(tipo_inconsistencia, "==tmax")
                      THEN {"tmean", "tmax"} ELSE {})
                \cup (IF tipo_inconsistencia = "tmean>tmax"
                      THEN {"tmean", "tmax"} ELSE {})
                \cup (IF tipo_inconsistencia = "tmean<tmin"
                      THEN {"tmean", "tmin"} ELSE {})
                \cup (IF tipo_inconsistencia = "tmax<tmin"
                      THEN {"tmax", "tmin"} ELSE {})
        todas == IF tipo_inconsistencia # "" THEN estad \cup term ELSE estad
    IN IF todas = {} THEN {var_principal} ELSE todas

\* the review loop with a reviewer who accepts the suggestion (enter) or
\* answers keep, pass, blank-tmean, swap or blank-all
ReviewKeys == {"", "m", "p", "t", "i", "s"}

NextReview ==
    \/ \E resp \in {"s", "n"} : StartReview(resp)
    \/ \E key \in ReviewKeys : ReviewStep(key, NoInput)
    \/ \E start_from \in {"org", "qc"} : EndThermal(start_from)

SpecReview == InitLoop /\ [][NextReview]_vars

SpecLoop == InitLoop /\ [][NextLoop]_vars

\* the review loop with a reviewer who answers keep (m) or pass (p) at every
\* prompt; the iterations of the while loop are counted up to MaxIter
KeepStep(key) ==
    /\ iters < MaxIter
    /\ ReviewIteration(key, NoInput)
    /\ iters' = iters + 1

NextKeep ==
    \/ \E resp \in {"s", "n"} : StartReview(resp)
    \/ \E key \in {"m", "p"} : KeepStep(key)
    \/ \E start_from \in {"org", "qc"} : EndThermal(start_from)
    \/ StatStage

\* process_file(var, ...) for each var whose series was loaded
InitKeep ==
    /\ fecha \in Dates
    /\ dfs \in InitialTriplets(fecha)
    /\ InitHistory
    /\ InitLoopVars
    /\ journal = JournalMissing
    /\ estacion = "S1"
    /\ stored = JournalMissing
    /\ variable \in {k \in VarSet : ~dfs[k].isNone}
    /\ bounds = BoundsSinLimites
    /\ outliers = NoOutliers
    /\ validados = {}
    /\ raised = ""
    /\ prompted = [prev |-> 0, last |-> 0]
    /\ tmp = [k \in VarSet |-> NoFile]
    /\ paths = [k \in VarSet |-> IF dfs[k].isNone THEN PathND ELSE PathOrg]
    /\ folder = OrgFolder(dfs)

SpecKeep == InitKeep /\ [][NextKeep]_vars

\* process_file goes on as long as a step is left to take
SpecKeepFair == SpecKeep /\ WF_vars(NextKeep)

\* ------------------------------------------ journal and outlier harness
\* apply_statistical_decision(df, index, decision, new_value)
apply_statistical_decision(df, index, decision, new_value) ==
    IF decision = "s"
    THEN Df([df.rows EXCEPT ![index + 1].valor = MISSING])
    ELSE IF decision = "n" /\ new_value # NONE
    THEN Df([df.rows EXCEPT ![index + 1].valor = new_value])
    ELSE df

\* dfs_trip[k].loc[fecha_mask, "valor"] = -99, or a new row when no row has
\* the date; k = tmean and action a first replace None by an empty frame
BlankAt(df, f) == SetVal(IF df.isNone THEN Df(<<>>) ELSE df, f, MISSING)

\* the answers the statistical menu accepts
StatActions == {"s", "m", "n", "p", "1", "2", "3", "a"}

\* actions 1 and 2 index dfs_trip["tmin"] / dfs_trip["tmax"] without a
\* None test
StatRaises(d, action) ==
    \/ action = "1" /\ d.tmin.isNone
    \/ action = "2" /\ d.tmax.isNone

\* the triplet after one iteration of "for idx, val in outliers": df_base,
\* the copy the decisions s, m, n, p are applied to, is replaced by a fresh
\* copy of dfs_trip[var] before it is stored back
StatTriplet(d, var, idx, f, action, nuevo) ==
    LET df_base == apply_statistical_decision(d[var], idx, action, nuevo)
        trip == CASE action = "1" -> [d EXCEPT !.tmin = BlankAt(d.tmin, f)]
                  [] action = "2" -> [d EXCEPT !.tmax = BlankAt(d.tmax, f)]
                  [] action = "3" -> [d EXCEPT !.tmean = BlankAt(d.tmean, f)]
                  [] action = "a" -> [k \in VarSet |-> BlankAt(d[k], f)]
                  [] OTHER -> d
        df_base2 == trip[var]
        guardado == [trip EXCEPT ![var] = df_base2]
    IN [k \in VarSet |-> SortValues(guardado[k])]

\* the samples the limits are computed from: empty, or n equal values and
\* one more value
RECURSIVE Rep(_, _)
Rep(a, n) == IF n = 0 THEN <<>> ELSE <<a>> \o Rep(a, n - 1)

Muestras ==
    {<<>>} \cup {Rep(2, n) \o <<b>> : n \in {1, MaxRep}, b \in {2, MaxVal}}

BoundsChoices == {BoundsSinLimites} \cup {compute_bounds(m) : m \in Muestras}

\* the rows of the date under study in the audit harness; the other dates
\* hold tmin = tmax = 2
AuditCells ==
    { [tmin |-> NONE, tmean |-> NONE, tmax |-> NONE],
      [tmin |-> 2, tmean |-> MISSING, tmax |-> 1],
      [tmin |-> 1, tmean |-> NONE, tmax |-> MaxVal] }

AuditTriplets(focus) ==
    { [k \in VarSet |->
          BuildDf([f \in Dates |-> IF f = focus THEN c
                                   ELSE [tmin |-> 2, tmean |-> NONE,
                                         tmax |-> 2]], k, TRUE)] :
        c \in AuditCells }

\* the statistical decisions of earlier sessions on the date f, each one
\* [estacion, variable, fecha, action, valor]
Previas(f) ==
    { <<>>,
      <<[estacion |-> "S1", variable |-> "tmin", fecha |-> f,
         action |-> "m", valor |-> 1]>>,
      <<[estacion |-> "S1", variable |-> "tmax", fecha |-> f,
         action |-> "s", valor |-> MaxVal],
        [estacion |-> "S1", variable |-> "tmean", fecha |-> f,
         action |-> "p", valor |-> 1]>> }

\* the journal those decisions left in folder_out
RECURSIVE JournalOf(_)
JournalOf(prev) ==
    IF prev = <<>> THEN JournalMissing
    ELSE LET q == prev[Len(prev)]
         IN AppendEntry(JournalOf(SubSeq(prev, 1, Len(prev) - 1)),
                        StatEntry(q.estacion, q.fecha, q.action, q.valor,
                                  NONE))

KeptOf(prev) ==
    {<<prev[i].estacion, prev[i].variable, prev[i].fecha>> :
        i \in {j \in 1..Len(prev) : prev[j].action = "m"}}

InitAudit ==
    /\ fecha \in Dates
    /\ dfs \in AuditTriplets(fecha)
    /\ InitHistory
    /\ InitLoopVars
    /\ \E prev \in Previas(fecha) :
          /\ journal = JournalOf(prev)
          /\ validados = KeptOf(prev)
    /\ stored = journal
    /\ estacion \in Stations
    /\ variable = "tmin"
    /\ bounds \in BoundsChoices
    /\ outliers = NoOutliers
    /\ raised = ""
    /\ InitSnapVars

\* one call apply_thermal_correction(accion, fecha, dfs, folder_out,
\* estacion, periodo), the journal write included
AuditedCall(accion, inp) ==
    /\ raised = ""
    /\ lastAccion = ""
    /\ ~outliers.fresh
    /\ dfs' = apply_thermal_correction(accion, fecha, dfs, inp)
    /\ before' = dfs
    /\ lastAccion' = accion
    /\ lastInp' = inp
    /\ journal' = AppendEntry(journal,
                      ThermalEntry(estacion, fecha, accion, dfs, dfs'))
    /\ UNCHANGED <<fecha, swapStart, detected>>
    /\ UNCHANGED loopVars
    /\ UNCHANGED <<stored, estacion, variable, bounds, outliers, validados,
                   raised>>
    /\ UNCHANGED snapVars

\* one call detect_outliers(dfs[var], bounds, folder_out, estacion, var)
OutlierCall(var) ==
    /\ raised = ""
    /\ ~outliers.fresh
    /\ variable' = var
    /\ LET res == detect_outliers(dfs[var], bounds, journal, estacion, var)
       IN outliers' = [fresh |-> TRUE, list |-> res, found |-> res]
    /\ UNCHANGED <<dfs, before, lastAccion, fecha, lastInp, swapStart,
                   detected>>
    /\ UNCHANGED loopVars
    /\ UNCHANGED <<journal, stored, estacion, bounds, validados, raised>>
    /\ UNCHANGED snapVars

\* one iteration of "for idx, val in outliers" of process_file (estacion was
\* upper-cased on entry); nuevo is the float() of the answer to action n
StatDecision(action, nuevo) ==
    /\ raised = ""
    /\ outliers.list # <<>>
    /\ LET idx == outliers.list[1].idx
           valor == outliers.list[1].val
           f == dfs[variable].rows[idx + 1].fecha
       IN IF StatRaises(dfs, action)
          THEN /\ raised' = "TypeError"
               /\ UNCHANGED <<dfs, journal, validados>>
          ELSE /\ dfs' = StatTriplet(dfs, variable, idx, f, action, nuevo)
               /\ journal' = AppendEntry(journal,
                                 StatEntry(Upper(estacion), f, action, valor,
                                           nuevo))
               /\ validados' = IF action = "m"
                               THEN validados \cup
                                        {<<Upper(estacion), variable, f>>}
                               ELSE validados
               /\ UNCHANGED raised
    /\ outliers' = [outliers EXCEPT !.list = Tail(outliers.list)]
    /\ UNCHANGED <<before, lastAccion, fecha, lastInp, swapStart, detected>>
    /\ UNCHANGED loopVars
    /\ UNCHANGED <<stored, estacion, variable, bounds>>
    /\ UNCHANGED snapVars

NextAudit ==
    \/ \E accion \in Acciones \ {"e"} : AuditedCall(accion, NoInput)
    \/ \E inp \in EditInputsLoop : AuditedCall("e", inp)
    \/ \E var \in VarSet : OutlierCall(var)
    \/ \E action \in StatActions : StatDecision(action, EditVal)

SpecAudit == InitAudit /\ [][NextAudit]_vars

\* ------------------------------------------------------- loading harness
\* the texts an org file holds for the date under study
FileTokens == {"-99", "-99.9", NumToken(1), NumToken(MaxVal)}

\* an org file: a first row whose date does not parse, then a row per date,
\* the date focus with the text tok and the others with 2
OrgFile(focus, tok) ==
    CsvFile(<<[FECHA |-> BADDATE, VALOR |-> NumToken(1)]>> \o
            [f \in Dates |->
                [FECHA |-> f,
                 VALOR |-> IF f = focus THEN tok ELSE NumToken(2)]])

\* an org file with no row for the date focus: a first row whose date does
\* not parse, then a row per other date
OrgFileSin(focus) ==
    CsvFile(<<[FECHA |-> BADDATE, VALOR |-> NumToken(1)]>> \o
            SelectSeq([f \in Dates |-> [FECHA |-> f, VALOR |-> NumToken(2)]],
                      LAMBDA r : r.FECHA # focus))

\* the snapshot and the final file of a variable, as write_tmp and write_qc
\* left them: each variable with a value of its own
ValorDe(k) == IF k = "tmin" THEN 1 ELSE IF k = "tmean" THEN 2 ELSE MaxVal
SnapFile(k) == WriteCsv(Df([f \in Dates |-> Row(f, ValorDe(k))]))
QcFile(k) == WriteCsv(Df(<<Row(1, ValorDe(k))>>))

\* which variables have a file of a kind: none, all, or tmin alone
Presentes == {{}, {"tmin"}, VarSet}

\* no limits, or the limits of the sample 2, MaxVal
LoadBounds == {BoundsSinLimites, compute_bounds(<<2, MaxVal>>)}

InitLoad ==
    /\ fecha \in Dates
    /\ dfs = [k \in VarSet |-> DfNone]
    /\ InitHistory
    /\ InitLoopVars
    /\ journal = JournalMissing
    /\ stored = journal
    /\ validados = {}
    /\ estacion = "S1"
    /\ variable = "tmin"
    /\ bounds \in LoadBounds
    /\ outliers = NoOutliers
    /\ raised = ""
    /\ prompted = [prev |-> 0, last |-> 0]
    /\ paths = [k \in VarSet |-> PathND]
    /\ \E o \in [VarSet -> {NoFile, OrgFileSin(fecha)}
                               \cup {OrgFile(fecha, t) : t \in FileTokens}],
          q \in Presentes :
          folder = [org |-> o,
                    qc |-> [k \in VarSet |->
                               IF k \in q THEN QcFile(k) ELSE NoFile],
                    completadas |-> {}]
    /\ \E t \in Presentes :
          tmp = [k \in VarSet |-> IF k \in t THEN SnapFile(k) ELSE NoFile]

\* one call load_triplet(folder_in, folder_out, periodo, estacion,
\* start_from, force_org); an exception ends the run
LoadCall(start_from, force_org) ==
    /\ pc = "start"
    /\ raised = ""
    /\ LET r == load_triplet(folder, tmp, start_from, force_org)
       IN /\ raised' = r.raised
          /\ pc' = IF r.raised # "" THEN "error" ELSE "loaded"
          /\ dfs' = IF r.raised # "" THEN dfs ELSE r.res
          /\ paths' = IF r.raised # "" THEN paths ELSE r.paths
    /\ UNCHANGED <<fecha, inconsist, total_inconsist, iters>>
    /\ UNCHANGED histVars
    /\ UNCHANGED <<journal, estacion, stored, variable, bounds, outliers,
                   validados>>
    /\ UNCHANGED <<prompted, tmp, folder>>

\* the thermal detection over the loaded triplet
LoadedDetect ==
    /\ pc = "loaded"
    /\ DetectCall

\* the index labels of the frame read_series returns for a file: the
\* positions of the rows read by read_csv, less the rows dropna removed
\* (the index is not reset)
read_index(file) ==
    SelectSeq([i \in 1..Len(file.filas) |-> i - 1],
              LAMBDA i : file.filas[i + 1].FECHA # BADDATE)

\* the file of a path of paths_trip
ArchivoDe(fold, snap, path) ==
    IF \E k \in VarSet, suf \in {"QC", "tmp", "org"} : PathOf(k, suf) = path
    THEN LET c == CHOOSE c \in VarSet \X {"QC", "tmp", "org"} :
                      PathOf(c[1], c[2]) = path
         IN Candidate(fold, snap, c[1], c[2]).file
    ELSE NoFile

\* the index labels of the series of var at this point of the run: those
\* of the file it was read from, or 0..n-1 once apply_thermal_correction
\* has returned it (reset_index)
RangeIndex(df) == [i \in 1..Len(df.rows) |-> i - 1]
IndexOf(var) ==
    IF lastAccion = "" THEN read_index(ArchivoDe(folder, tmp, paths[var]))
    ELSE RangeIndex(dfs[var])

\* the loop of detect_outliers over a frame with the index labels index:
\* the position i of enumerate is used as a label in df.loc[i, "fecha"],
\* which raises KeyError when no row has that label
RECURSIVE OutliersAt(_, _, _, _, _, _)
OutliersAt(df, index, i, b, validated, est) ==
    IF i > Len(df.rows) THEN [list |-> <<>>, raised |-> ""]
    ELSE LET v == df.rows[i].valor
             rest == OutliersAt(df, index, i + 1, b, validated, est)
         IN IF v = MISSING THEN rest
            ELSE IF ~\E j \in 1..Len(index) : index[j] = i - 1
            THEN [list |-> <<>>, raised |-> "KeyError"]
            ELSE LET j == CHOOSE j \in 1..Len(index) : index[j] = i - 1
                 IN IF /\ v # NAN
                       /\ <<est, df.rows[j].fecha>> \notin validated
                       /\ (Unidad * v < b.lim_inf \/ Unidad * v > b.lim_sup)
                    THEN [list |-> <<[idx |-> i - 1, val |-> v]>> \o rest.list,
                          raised |-> rest.raised]
                    ELSE rest

\* the statistical detection over a loaded series: the guards of
\* detect_outliers, then its loop
LoadedOutliers(var) ==
    /\ pc = "loaded"
    /\ raised = ""
    /\ ~outliers.fresh
    /\ variable' = var
    /\ LET r == IF \/ dfs[var].isNone \/ dfs[var].rows = <<>>
                   \/ bounds.lim_inf \in {NONE, NAN}
                   \/ bounds.lim_sup \in {NONE, NAN}
                   \/ RangoDegenerado(bounds)
                THEN [list |-> <<>>, raised |-> ""]
                ELSE OutliersAt(dfs[var], IndexOf(var), 1, bounds,
                                get_validated_outliers(journal), estacion)
       IN /\ raised' = r.raised
          /\ pc' = IF r.raised # "" THEN "error" ELSE pc
          /\ outliers' = IF r.raised # "" THEN outliers
                         ELSE [fresh |-> TRUE, list |-> r.list,
                               found |-> r.list]
    /\ UNCHANGED <<dfs, before, lastAccion, fecha, lastInp, swapStart,
                   detected>>
    /\ UNCHANGED <<inconsist, total_inconsist, iters>>
    /\ UNCHANGED <<journal, stored, estacion, bounds, validados>>
    /\ UNCHANGED snapVars

\* the loop "Ensure rows exist" over a frame with the index labels index:
\* df.loc[len(df)] = {...} appends a row when no row has the label len(df)
\* and assigns to the row of that label when there is one
EnsureRowLoaded(df, index, f) ==
    IF ~df.isNone /\ ~HasRow(df, f)
          /\ \E j \in 1..Len(index) : index[j] = Len(df.rows)
    THEN LET j == CHOOSE j \in 1..Len(index) : index[j] = Len(df.rows)
         IN Df(SortRows([df.rows EXCEPT ![j] = Row(f, MISSING)]))
    ELSE EnsureRow(df, f)

\* one call apply_thermal_correction(accion, fecha, dfs, ...) on the triplet
\* as load_triplet returned it, the journal write included
LoadedApply(accion) ==
    /\ pc = "loaded"
    /\ raised = ""
    /\ lastAccion = ""
    /\ ~detected.fresh
    /\ ~outliers.fresh
    /\ LET ensured == [k \in VarSet |->
                          EnsureRowLoaded(dfs[k],
                              read_index(ArchivoDe(folder, tmp, paths[k])),
                              fecha)]
       IN dfs' = apply_thermal_correction(accion, fecha, ensured, NoInput)
    /\ before' = dfs
    /\ lastAccion' = accion
    /\ lastInp' = NoInput
    /\ journal' = AppendEntry(journal,
                      ThermalEntry(estacion, fecha, accion, dfs, dfs'))
    /\ UNCHANGED <<fecha, swapStart, detected>>
    /\ UNCHANGED loopVars
    /\ UNCHANGED <<stored, estacion, variable, bounds, outliers, validados,
                   raised>>
    /\ UNCHANGED snapVars

NextLoad ==
    \/ \E start_from \in {"auto", "qc"}, force_org \in BOOLEAN :
          LoadCall(start_from, force_org)
    \/ LoadedDetect
    \/ \E var \in VarSet : LoadedOutliers(var)
    \/ \E accion \in {"m", "t"} : LoadedApply(accion)

SpecLoad == InitLoad /\ [][NextLoad]_vars

\* ==================================================================
\* Properties
\* ==================================================================
\* the value a series holds for a date, a series without a row for the date
\* (or an absent series) reading as the sentinel, as _safe_get and row.get do
ValAt(d, k, f) ==
    IF GetVal(d[k], f) = NONE THEN MISSING ELSE GetVal(d[k], f)

\* present and not -99
ValidAt(d, k, f) == GetVal(d[k], f) # NONE /\ GetVal(d[k], f) # MISSING

\* the kinds reported for a date, and the number of entries of the date
ReportedKinds(lst, f) == {lst[i].tipo : i \in {j \in 1..Len(lst) : lst[j].fecha = f}}
ReportedCount(lst, f) == Cardinality({j \in 1..Len(lst) : lst[j].fecha = f})

\* the kind of the first matching rule of the fixed order, read from the
\* three series themselves
ExpectedKind(d, f) ==
    LET tmin == ValAt(d, "tmin", f)
        tmean == ValAt(d, "tmean", f)
        tmax == ValAt(d, "tmax", f)
        vmin == ValidAt(d, "tmin", f)
        vmean == ValidAt(d, "tmean", f)
        vmax == ValidAt(d, "tmax", f)
    IN IF vmin /\ vmax /\ tmin = tmax THEN "tmin==tmax"
       ELSE IF vmean /\ vmax /\ tmean = tmax THEN "tmean==tmax"
       ELSE IF vmean /\ vmin /\ tmean = tmin THEN "tmean==tmin"
       ELSE IF vmin /\ vmax /\ tmax < tmin THEN "tmax<tmin"
       ELSE IF vmean /\ vmax /\ tmean > tmax THEN "tmean>tmax"
       ELSE IF vmean /\ vmin /\ tmean < tmin THEN "tmean<tmin"
       ELSE NoTipo

NumValid(d, f) == Cardinality({k \in VarSet : ValidAt(d, k, f)})

\* C2 (as stated): every date with valid tmin and tmax and tmax < tmin is
\* classified exactly 'tmax<tmin', whatever tmean is.
C2_AlwaysTmaxLessTmin ==
    detected.fresh =>
        \A f \in Dates :
            (ValidAt(dfs, "tmin", f) /\ ValidAt(dfs, "tmax", f)
             /\ ValAt(dfs, "tmax", f) < ValAt(dfs, "tmin", f))
            => ReportedKinds(detected.list, f) = {"tmax<tmin"}

\* C2 (amended): a date with valid tmin and tmax and tmax < tmin is
\* classified 'tmean==tmax' when tmean is valid and equals tmax,
\* 'tmean==tmin' when tmean is valid and equals tmin, and exactly
\* 'tmax<tmin' in every other case.
C2_TmaxLessTminUnlessTmeanEqual ==
    detected.fresh =>
        \A f \in Dates :
            (ValidAt(dfs, "tmin", f) /\ ValidAt(dfs, "tmax", f)
             /\ ValAt(dfs, "tmax", f) < ValAt(dfs, "tmin", f))
            => ReportedKinds(detected.list, f) =
                 IF ValidAt(dfs, "tmean", f)
                    /\ ValAt(dfs, "tmean", f) = ValAt(dfs, "tmax", f)
                 THEN {"tmean==tmax"}
                 ELSE IF ValidAt(dfs, "tmean", f)
                         /\ ValAt(dfs, "tmean", f) = ValAt(dfs, "tmin", f)
                 THEN {"tmean==tmin"}
                 ELSE {"tmax<tmin"}

\* a detection over a date with tmax < tmin and a valid tmean above both,
\* reported as 'tmax<tmin'
C2_Witness ==
    /\ detected.fresh
    /\ \E f \in Dates :
          /\ ValidAt(dfs, "tmin", f) /\ ValidAt(dfs, "tmax", f)
          /\ ValidAt(dfs, "tmean", f)
          /\ ValAt(dfs, "tmax", f) < ValAt(dfs, "tmin", f)
          /\ ValAt(dfs, "tmean", f) > ValAt(dfs, "tmin", f)
          /\ ReportedKinds(detected.list, f) = {"tmax<tmin"}

C4_ReportedIffNotOrdered ==
    detected.fresh =>
        \A f \in Dates :
            NumValid(dfs, f) = 3 =>
                ((ReportedCount(detected.list, f) > 0)
                 <=> ~(ValAt(dfs, "tmin", f) < ValAt(dfs, "tmean", f)
                       /\ ValAt(dfs, "tmean", f) < ValAt(dfs, "tmax", f)))

\* a detection over a date with tmin < tmean < tmax, which is not reported
C4_Witness ==
    /\ detected.fresh
    /\ \E f \in Dates :
          /\ NumValid(dfs, f) = 3
          /\ ValAt(dfs, "tmin", f) < ValAt(dfs, "tmean", f)
          /\ ValAt(dfs, "tmean", f) < ValAt(dfs, "tmax", f)
          /\ ReportedCount(detected.list, f) = 0

\* the values of the corrected date before and after the last call
Antes(k) == ValAt(before, k, fecha)
Despues(k) == ValAt(dfs, k, fecha)
EraValido(k) == ValidAt(before, k, fecha)

\* C5: keep (m), or an unrecognised action, leaves the three series exactly
\* as they were: same rows, same values, nothing added or removed.
C5_KeepLeavesSeriesIdentical ==
    lastAccion \in {"m", "p", "zz"} => dfs = before

\* C6: swap (i) exchanges tmin and tmax at the date when both are valid and
\* changes neither of them when one is missing (-99 or no row).
C6_SwapOnlyWhenBothValid ==
    lastAccion = "i" =>
        IF EraValido("tmin") /\ EraValido("tmax")
        THEN Despues("tmin") = Antes("tmax") /\ Despues("tmax") = Antes("tmin")
        ELSE Despues("tmin") = Antes("tmin") /\ Despues("tmax") = Antes("tmax")

\* C7: reorder (r) with at least two valid values leaves every pair of
\* valid values of the date ordered tmin <= tmean <= tmax, the three sorted
\* values taking the three places when all are valid; with fewer than two
\* valid values it changes nothing.
C7_ReorderOrdersValidValues ==
    lastAccion = "r" =>
        IF Cardinality({k \in VarSet : EraValido(k)}) >= 2
        THEN /\ \A i \in 1..3 : \A j \in 1..3 :
                  (i < j /\ ValidAt(dfs, Vars3[i], fecha)
                         /\ ValidAt(dfs, Vars3[j], fecha))
                  => Despues(Vars3[i]) <= Despues(Vars3[j])
             /\ (\A k \in VarSet : EraValido(k)) =>
                  <<Despues("tmin"), Despues("tmean"), Despues("tmax")>> =
                      SortedVals(<<Antes("tmin"), Antes("tmean"), Antes("tmax")>>)
        ELSE \A k \in VarSet : Despues(k) = Antes(k)

\* C8: blank-pair (x) sets tmean missing; it also sets tmax missing when
\* tmean > tmax held between valid values, otherwise tmin missing when
\* tmean < tmin held between valid values, otherwise nothing else.
C8_BlankPairComparesValidValues ==
    lastAccion = "x" =>
        /\ Despues("tmean") = MISSING
        /\ IF EraValido("tmean") /\ EraValido("tmax")
              /\ Antes("tmean") > Antes("tmax")
           THEN Despues("tmax") = MISSING /\ Despues("tmin") = Antes("tmin")
           ELSE IF EraValido("tmean") /\ EraValido("tmin")
                   /\ Antes("tmean") < Antes("tmin")
           THEN Despues("tmin") = MISSING /\ Despues("tmax") = Antes("tmax")
           ELSE Despues("tmin") = Antes("tmin") /\ Despues("tmax") = Antes("tmax")

\* C9: after two swaps (i) in succession on the same date, tmin and tmax of
\* the date have the values they had before the first swap, and tmean of
\* the date is what it was before the first and before the second swap.
C9_SwapTwiceRestores ==
    swapStart.set =>
        /\ Despues("tmin") = ValAt(swapStart.dfs, "tmin", fecha)
        /\ Despues("tmax") = ValAt(swapStart.dfs, "tmax", fecha)
        /\ Antes("tmean") = ValAt(swapStart.dfs, "tmean", fecha)
        /\ Despues("tmean") = Antes("tmean")

\* two swaps in succession on a date whose tmin and tmax were valid and
\* different, so that the first swap changed both
C9_Witness ==
    /\ swapStart.set
    /\ ValidAt(swapStart.dfs, "tmin", fecha)
    /\ ValidAt(swapStart.dfs, "tmax", fecha)
    /\ ValAt(swapStart.dfs, "tmin", fecha) # ValAt(swapStart.dfs, "tmax", fecha)
    /\ Antes("tmin") = ValAt(swapStart.dfs, "tmax", fecha)
    /\ Despues("tmin") = ValAt(swapStart.dfs, "tmin", fecha)

\* C10: manual edit (e) treats the three fields independently: a field with
\* a numeric answer is set to that number, a field with an empty or
\* non-numeric answer keeps its value.
C10_EditFieldsIndependent ==
    lastAccion = "e" =>
        \A i \in 1..3 :
            IF IsNumeric(lastInp[i])
            THEN Despues(Vars3[i]) = Float(lastInp[i])
            ELSE Despues(Vars3[i]) = Antes(Vars3[i])

\* C1: with a reviewer whose every action leaves the classification of the
\* reviewed date in place (keep or pass), the review loop prompts at most
\* twice per inconsistency of the first detection: one review and at most
\* one extra iteration for each (date, kind).
C1_KeepLoopTerminates ==
    iters <= 2 * total_inconsist

\* the entries of the journal file
Entradas(p) == IF p.exists THEN p.single_changes ELSE <<>>

\* C11: a call of apply_thermal_correction, whatever the action, appends
\* exactly one entry to the journal, holding the station, the date, the
\* action and the values of the three series at the date before and after.
C11_EveryCallAppendsOneEntry ==
    (lastAccion # "" /\ ~outliers.fresh) =>
        Entradas(journal) =
            Append(Entradas(stored),
                   [estacion |-> Upper(estacion), fecha |-> fecha,
                    accion |-> lastAccion, nota |-> "",
                    valores_previos |->
                        [k \in VarSet |-> GetVal(before[k], fecha)],
                    valores_nuevos |->
                        [k \in VarSet |-> GetVal(dfs[k], fecha)]])

\* an unknown action on a date for which a series had no value, with
\* entries of an earlier session in the journal
C11_Witness ==
    /\ lastAccion = "zz"
    /\ ~outliers.fresh
    /\ Entradas(stored) # <<>>
    /\ Len(Entradas(journal)) = Len(Entradas(stored)) + 1
    /\ \E k \in VarSet : GetVal(before[k], fecha) = NONE

\* C12: the journal is append-only: every step leaves the entries already
\* written in place, unmodified and in their order.
C12_JournalAppendOnly ==
    [][ /\ Len(Entradas(journal')) >= Len(Entradas(journal))
        /\ SubSeq(Entradas(journal'), 1, Len(Entradas(journal)))
               = Entradas(journal) ]_vars

\* entries of an earlier session followed by a thermal correction and a
\* statistical decision of this one
C12_Witness ==
    /\ Entradas(stored) # <<>>
    /\ lastAccion # ""
    /\ outliers.fresh
    /\ Len(Entradas(journal)) = Len(Entradas(stored)) + 2

\* the date of the row of an outlier (index, value) of the reviewed series
FechaDe(o) == dfs[variable].rows[o.idx + 1].fecha

\* the journal holds a keep (m) for the station and the date
TieneKeep(p, est, f) ==
    \E i \in 1..Len(Entradas(p)) :
        /\ Entradas(p)[i].accion = "m"
        /\ Entradas(p)[i].estacion = est
        /\ Entradas(p)[i].fecha = f

\* a detection whose result has not been reviewed yet
RecienDetectado == outliers.fresh /\ outliers.list = outliers.found

\* the limits can be used
LimitesValidos ==
    /\ bounds.lim_inf # NONE /\ bounds.lim_sup # NONE
    /\ bounds.lim_inf # NAN /\ bounds.lim_sup # NAN
    /\ bounds.lim_sup - bounds.lim_inf > 0

FueraDeLimites(v) ==
    Unidad * v < bounds.lim_inf \/ Unidad * v > bounds.lim_sup

\* row i of the reviewed series is in the returned list
Devuelto(i) ==
    \E j \in 1..Len(outliers.found) :
        /\ outliers.found[j].idx = i - 1
        /\ outliers.found[j].val = dfs[variable].rows[i].valor

C14_KeepIsPerVariable ==
    (RecienDetectado /\ LimitesValidos) =>
        \A i \in 1..Len(dfs[variable].rows) :
            ( /\ dfs[variable].rows[i].valor # MISSING
              /\ FueraDeLimites(dfs[variable].rows[i].valor)
              /\ <<estacion, variable, dfs[variable].rows[i].fecha>>
                     \notin validados )
            => Devuelto(i)

C16_EarliestDateFirst ==
    prompted.prev # 0 => prompted.prev <= prompted.last

\* C17: when the reviewer declines the review, every series of the triplet
\* is persisted as it is in the in-progress snapshot before the return.
C17_DeclinePersistsSnapshot ==
    pc = "skipped" =>
        \A k \in VarSet : ~dfs[k].isNone => tmp[k] = WriteCsv(dfs[k])

\* C18: once a correction has been applied in the review loop, the stored
\* in-progress snapshot of each of tmin, tmean and tmax is the in-memory
\* series, at every prompt that follows and when the loop is left.
C18_SnapshotFollowsTriplet ==
    prompted.last # 0 =>
        /\ raised = ""
        /\ \A k \in VarSet : tmp[k] = WriteCsv(dfs[k])

\* the files that exist for the variable k in folder_in and folder_out
HayArchivo(k) == folder.org[k].exists \/ folder.qc[k].exists \/ tmp[k].exists
RutasDe(k) == {PathOf(k, suf) : suf \in {"org", "tmp", "QC"}}

\* C19: load_triplet returns None, with the path N/D, for every variable
\* that has no file, whatever was found for the variables before it, and
\* the series it returns for a variable is read from a file of that variable.
C19_NotFoundIsAbsent ==
    pc = "loaded" =>
        \A k \in VarSet :
            /\ ~HayArchivo(k) => dfs[k].isNone
            /\ paths[k] \in RutasDe(k) \cup {PathND}

\* C20: a loaded series holds no -99.9, so neither the thermal detection
\* nor the statistical detection over the loaded triplet reports a -99.9.
C20_SentinelNormalisedOnLoad ==
    pc = "loaded" =>
        /\ \A k \in VarSet : \A i \in 1..Len(dfs[k].rows) :
              dfs[k].rows[i].valor # MISSING_ALT
        /\ \A i \in 1..Len(detected.list) :
              MISSING_ALT \notin {detected.list[i].tmin, detected.list[i].tmean,
                                  detected.list[i].tmax}
        /\ \A i \in 1..Len(outliers.found) :
              outliers.found[i].val # MISSING_ALT

\* the suggestion process_file offers for the date of the last call, from
\* the values the triplet held before it
Sugerida ==
    sugerir_accion_letras(SafeGet(before, "tmin", fecha),
                          SafeGet(before, "tmean", fecha),
                          SafeGet(before, "tmax", fecha))

RowCount(df, f) == Cardinality({i \in 1..Len(df.rows) : df.rows[i].fecha = f})

\* C22: after a call of apply_thermal_correction each of tmin, tmean and
\* tmax is a series with exactly one row for the corrected date, also when
\* it was absent or had no row for the date, and no series holds two rows
\* of one date.
C22_OneRowPerDate ==
    lastAccion # "" =>
        \A k \in VarSet :
            /\ ~dfs[k].isNone
            /\ RowCount(dfs[k], fecha) = 1
            /\ \A f \in Dates : RowCount(dfs[k], f) <= 1

\* a call on a triplet whose tmean was absent and whose tmax had rows but
\* none for the date: both hold a missing-valued row for it afterwards
C22_Witness ==
    /\ lastAccion # ""
    /\ before.tmean.isNone
    /\ ~before.tmax.isNone /\ before.tmax.rows # <<>>
    /\ RowCount(before.tmax, fecha) = 0
    /\ RowCount(dfs.tmean, fecha) = 1 /\ GetVal(dfs.tmean, fecha) = MISSING
    /\ RowCount(dfs.tmax, fecha) = 1 /\ GetVal(dfs.tmax, fecha) = MISSING

\* the entry of the last statistical decision of the session, when the
\* journal ends with one
HayDecision ==
    /\ Len(Entradas(journal)) > Len(Entradas(stored))
    /\ Entradas(journal)[Len(Entradas(journal))].nota =
           "decision estadistica (workflow)"
UltimaDecision == Entradas(journal)[Len(Entradas(journal))]

\* C23: after a decision of the statistical pass the reviewed series holds
\* its result at the date of the outlier: missing after substitute (s), the
\* supplied number after new-value (n), the value it had after keep (m).
C23_DecisionsTakeEffect ==
    HayDecision =>
        LET v == GetVal(dfs[variable], UltimaDecision.fecha)
        IN /\ UltimaDecision.accion = "s" => v = MISSING
           /\ UltimaDecision.accion = "n" => v = UltimaDecision.valor_new
           /\ UltimaDecision.accion = "m" => v = UltimaDecision.valor_prev

\* C24: a run on a variable whose series has rows, once the thermal review
\* loop has ended, goes on to the statistical detection and in the end has
\* written the final file of the variable and recorded it as completed.
C24_ReachesFinalSnapshot ==
    (pc = "thermo_done" /\ dfs[variable].rows # <<>>)
        ~> (/\ pc = "done"
            /\ folder.qc[variable].exists
            /\ variable \in folder.completadas)

\* C25: when the review loop ends normally at most one date of the triplet
\* is still inconsistent, and that date is the one reviewed last, with the
\* kind it was presented with (its action left date and kind as they
\* were).
C25_AtMostLastReviewedRemains ==
    /\ [](pc = "thermo_done" =>
            LET det == detect_thermal_inconsistencies(dfs)
            IN /\ Len(det) <= 1
               /\ Len(det) = 1 => det[1].fecha = prompted.last)
    /\ [][(pc = "loop" /\ pc' = "loop" /\ inconsist # <<>>
                /\ inconsist' = <<>>) =>
            LET det == detect_thermal_inconsistencies(dfs')
            IN \/ det = <<>>
               \/ /\ Len(det) = 1
                  /\ det[1].fecha = inconsist[1].fecha
                  /\ det[1].tipo = inconsist[1].tipo
                  /\ prompted'.last = det[1].fecha]_vars

C25_Witness ==
    /\ pc = "thermo_done"
    /\ Len(detect_thermal_inconsistencies(dfs)) = 1
    /\ detect_thermal_inconsistencies(dfs)[1].fecha = prompted.last

\* C26: at the start of every iteration of the review loop each pending
\* item is an inconsistency of the current triplet, with the same date and
\* kind, and the re-validation of the first pending item finds it
\* inconsistent.
C26_PendingAreCurrent ==
    (pc = "loop" /\ raised = "" /\ inconsist # <<>>) =>
        /\ \A i \in 1..Len(inconsist) :
               SigueIgual(detect_thermal_inconsistencies(dfs),
                          inconsist[i].fecha, inconsist[i].tipo)
        /\ HayInconsistenciaReal(SafeGet(dfs, "tmin", inconsist[1].fecha),
                                 SafeGet(dfs, "tmean", inconsist[1].fecha),
                                 SafeGet(dfs, "tmax", inconsist[1].fecha))

\* the part of C26 about the list alone
C26_PendingSubsetOfDetection ==
    (pc = "loop" /\ raised = "" /\ inconsist # <<>>) =>
        \A i \in 1..Len(inconsist) :
            SigueIgual(detect_thermal_inconsistencies(dfs),
                       inconsist[i].fecha, inconsist[i].tipo)

\* C27: when the reviewer accepts the suggestion offered for the presented
\* inconsistency, the triplet that results is not detected again with the
\* same date and kind, so the acceptance never ends in the forced drop.
C27_SuggestionResolves ==
    [][ReviewStep("", NoInput) /\ prompted'.last = inconsist[1].fecha
            /\ HayInconsistenciaReal(
                   SafeGet(dfs, "tmin", inconsist[1].fecha),
                   SafeGet(dfs, "tmean", inconsist[1].fecha),
                   SafeGet(dfs, "tmax", inconsist[1].fecha))
        => ~SigueIgual(detect_thermal_inconsistencies(dfs'),
                       inconsist[1].fecha, inconsist[1].tipo)]_vars

\* C28: after a thermal correction with action keep (m) for a station and a
\* date, a later detect_outliers call for that station returns no entry of
\* that date, whichever variable is examined.
C28_ThermalKeepSuppresses ==
    (RecienDetectado /\ lastAccion = "m") =>
        \A j \in 1..Len(outliers.found) :
            FechaDe(outliers.found[j]) # fecha

\* the same for a station id written in capitals
C28_ThermalKeepSuppressesUpper ==
    (RecienDetectado /\ lastAccion = "m" /\ estacion = Upper(estacion)) =>
        \A j \in 1..Len(outliers.found) :
            FechaDe(outliers.found[j]) # fecha

\* C29: apply_thermal_correction changes values at the given date alone:
\* for every other date each of tmin, tmean and tmax holds after the call
\* the value it held before.
C29_OnlyGivenDateChanges ==
    lastAccion # "" =>
        \A k \in VarSet : \A g \in Dates \ {fecha} :
            GetVal(dfs[k], g) = GetVal(before[k], g)

\* the two variables a kind names
NombradasEn(tipo) ==
    CASE tipo = "tmean==tmin" -> {"tmean", "tmin"}
      [] tipo = "tmean==tmax" -> {"tmean", "tmax"}
      [] tipo = "tmin==tmax" -> {"tmin", "tmax"}
      [] tipo = "tmax<tmin" -> {"tmax", "tmin"}
      [] tipo = "tmean>tmax" -> {"tmean", "tmax"}
      [] tipo = "tmean<tmin" -> {"tmean", "tmin"}

\* C30: the variables drawn as implicated in the inconsistency the loop
\* presents are exactly the two its kind names.
C30_ImplicatedAreNamed ==
    (pc = "loop" /\ raised = "" /\ inconsist # <<>>) =>
        vars_anomalas(inconsist[1].tipo, variable)
            = NombradasEn(inconsist[1].tipo)

\* the same for every kind but 'tmin==tmax'
C30_ImplicatedAreNamedButEqualExtremes ==
    (pc = "loop" /\ raised = "" /\ inconsist # <<>>
        /\ inconsist[1].tipo # "tmin==tmax") =>
        vars_anomalas(inconsist[1].tipo, variable)
            = NombradasEn(inconsist[1].tipo)

====
